---- MODULE Spec2Model ----
(***************************************************************************)
(* Model of src/format/x25519.rs: the X25519 recipient line of the age     *)
(* file format.  RecipientLine::wrap_file_key / unwrap_file_key wrap a     *)
(* 16-byte file key for the holder of an X25519 key; read::recipient_line  *)
(* and write::recipient_line are the codec of the stanza                   *)
(*     X25519 <base64(epk)> \n <base64(encrypted_file_key)>.               *)
(*                                                                         *)
(* Byte strings are sequences over 0..255 at their real lengths.  The      *)
(* primitives the file imports are modelled as follows.                    *)
(*  - x25519_dalek: clamping and the masking of bit 255 of a u-coordinate  *)
(*    are bit exact; the group is scaled down from GF(2^255 - 19) to       *)
(*    GF(2^8 - 5), base point u = 9 as in X25519.                          *)
(*  - hkdf and the AEAD are ideal: hkdf is injective in (salt, label,      *)
(*    ikm); a ciphertext is the honest ciphertext of (key, plaintext)      *)
(*    XORed with a bit mask, and it verifies under that key alone and      *)
(*    only when the mask is empty.                                         *)
(*  - OsRng never yields the same ephemeral secret twice.                  *)
(***************************************************************************)
EXTENDS Integers, Sequences, FiniteSets, TLC

VARIABLES
    calls,      \* history of wrap_file_key calls, one record per call
    cur,        \* the RecipientLine under examination, with its provenance
    res,        \* the last unwrap_file_key call and its outcome
    stanza,     \* the generic stanza last given to read::recipient_line
    parsed,     \* the outcome of read::recipient_line
    wire,       \* the bytes last written by write::recipient_line
    wire2       \* the bytes written from the line parsed back from wire

vars == <<calls, cur, res, stanza, parsed, wire, wire2>>

None == [none |-> TRUE]

-----------------------------------------------------------------------------
(* Program constants.                                                      *)

X25519_RECIPIENT_TAG == <<"X", "2", "5", "5", "1", "9">>
X25519_RECIPIENT_KEY_LABEL == "age-encryption.org/v1/X25519"
EPK_LEN_BYTES == 32
ENCRYPTED_FILE_KEY_BYTES == 32
FILE_KEY_BYTES == 16

-----------------------------------------------------------------------------
(* Bytes.                                                                  *)

Pow2(k) == 2 ^ k

\* byte b with bit k (0 = least significant) inverted
FlipBit(b, k) == IF (b \div Pow2(k)) % 2 = 1 THEN b - Pow2(k) ELSE b + Pow2(k)

\* bytes with bit `bit` inverted; bit 0 is the low bit of the first byte and
\* bit 8 * Len - 1 the high bit of the last one
FlipBitAt(bytes, bit) ==
    [bytes EXCEPT ![(bit \div 8) + 1] = FlipBit(@, bit % 8)]

\* [v; n]
Repeat(v, n) == [i \in 1..n |-> v]

\* The little-endian integer of bytes[i..Len(bytes)], modulo m.
RECURSIVE LittleEndianFrom(_, _, _)
LittleEndianFrom(bytes, i, m) ==
    IF i > Len(bytes) THEN 0
    ELSE (bytes[i] + 256 * LittleEndianFrom(bytes, i + 1, m)) % m

LittleEndianMod(bytes, m) == LittleEndianFrom(bytes, 1, m)

-----------------------------------------------------------------------------
(* x25519_dalek, over the scaled-down field.                               *)

FieldPrime == 251
GroupExponent == FieldPrime - 1
BasePointU == 9

\* clamp_scalar: clear the three low bits of the first byte, clear bit 7 and
\* set bit 6 of the last byte.
clamp_scalar(bytes) ==
    [bytes EXCEPT ![1] = @ - (@ % 8), ![32] = (@ % 64) + 64]

\* StaticSecret::from([u8; 32])
StaticSecret_from(bytes) == clamp_scalar(bytes)

\* EphemeralSecret::new(&mut rng), rnd being the 32 bytes the rng filled in
EphemeralSecret_new(rnd) == clamp_scalar(rnd)

\* PublicKey::from([u8; 32]): the bytes are kept as they are
PublicKey_from_bytes(bytes) == bytes

\* The field element of a u-coordinate: bit 255 is ignored and the value is
\* reduced modulo the field prime.
FieldElement_from_bytes(u) ==
    LittleEndianMod([u EXCEPT ![32] = @ % 128], FieldPrime)

FieldElement_to_bytes(x) == [i \in 1..32 |-> IF i = 1 THEN x ELSE 0]

RECURSIVE PowMod(_, _, _)
PowMod(b, e, m) ==
    IF e = 0 THEN 1 % m
    ELSE LET h == PowMod(b, e \div 2, m)
             s == (h * h) % m
         IN  IF e % 2 = 1 THEN (s * b) % m ELSE s

\* scalar * point, on u-coordinates
scalar_mult(scalar, u) ==
    LET x == FieldElement_from_bytes(u)
        e == LittleEndianMod(scalar, GroupExponent)
    IN  FieldElement_to_bytes(IF x = 0 THEN 0 ELSE PowMod(x, e, FieldPrime))

\* PublicKey::from(&secret)
PublicKey_from_secret(secret) ==
    scalar_mult(secret, FieldElement_to_bytes(BasePointU))

\* secret.diffie_hellman(&their_public)
diffie_hellman(secret, their_public) == scalar_mult(secret, their_public)

-----------------------------------------------------------------------------
(* crate::primitives, ideal.                                               *)

AEAD_TAG_BYTES == 16

hkdf(salt, label, ikm) == [salt |-> salt, label |-> label, ikm |-> ikm]

\* ciphertext || tag of pt under key
aead_encrypt(key, pt) == [key |-> key, pt |-> pt, mask |-> {}]

CiphertextLen(ct) == Len(ct.pt) + AEAD_TAG_BYTES

\* the ciphertext with one bit inverted
CiphertextFlipBit(ct, bit) ==
    [ct EXCEPT !.mask = IF bit \in @ THEN @ \ {bit} ELSE @ \cup {bit}]

aead_decrypt(key, ct) ==
    IF ct.key = key /\ ct.mask = {}
    THEN [ok |-> TRUE, pt |-> ct.pt]
    ELSE [ok |-> FALSE]

-----------------------------------------------------------------------------
(* RecipientLine.                                                          *)

\* Error::from(aead error): one value, without detail
DecryptionFailed == [ok |-> FALSE, err |-> "DecryptionFailed"]

Panicked == [ok |-> FALSE, err |-> "panic"]

\* salt = epk || pk, then hkdf(&salt, X25519_RECIPIENT_KEY_LABEL, shared_secret)
enc_key_salt_without_epk(epk, pk, shared_secret) ==
    hkdf(pk, X25519_RECIPIENT_KEY_LABEL, shared_secret)

derive_enc_key(epk, pk, shared_secret) ==
    hkdf(epk \o pk, X25519_RECIPIENT_KEY_LABEL, shared_secret)

\* wrap_file_key with a cached ephemeral secret in place of a fresh one
wrap_file_key_static_esk(file_key, pk, rnd) ==
    LET esk == EphemeralSecret_new(Repeat(0, 32))
        epk == PublicKey_from_secret(esk)
        shared_secret == diffie_hellman(esk, pk)
        enc_key == derive_enc_key(epk, pk, shared_secret)
        ct == aead_encrypt(enc_key, file_key)
    IN  [line |-> [epk |-> epk, encrypted_file_key |-> ct],
         trace |-> << <<"diffie_hellman", esk, pk>>,
                      <<"hkdf", epk \o pk, shared_secret>>,
                      <<"aead_encrypt", enc_key, file_key>> >>]

\* RecipientLine::wrap_file_key(file_key, pk); rnd is what OsRng yields.  The
\* result carries the line and the trace of the primitives the call invoked.
wrap_file_key(file_key, pk, rnd) ==
    LET esk == EphemeralSecret_new(rnd)
        epk == PublicKey_from_secret(esk)
        shared_secret == diffie_hellman(esk, pk)
        enc_key == derive_enc_key(epk, pk, shared_secret)
        ct == aead_encrypt(enc_key, file_key)
    IN  IF CiphertextLen(ct) # ENCRYPTED_FILE_KEY_BYTES
        THEN [line |-> Panicked, trace |-> <<>>]
        ELSE [line |-> [epk |-> epk, encrypted_file_key |-> ct],
              trace |-> << <<"rng", rnd>>,
                           <<"diffie_hellman", esk, pk>>,
                           <<"hkdf", epk \o pk, shared_secret>>,
                           <<"aead_encrypt", enc_key, file_key>> >>]

\* unwrap_file_key with the salt built from the epk twice
unwrap_file_key_wrong_salt(line, sk) ==
    LET shared_secret == diffie_hellman(sk, line.epk)
        enc_key == derive_enc_key(line.epk, line.epk, shared_secret)
        d == aead_decrypt(enc_key, line.encrypted_file_key)
    IN  IF ~d.ok THEN DecryptionFailed ELSE [ok |-> TRUE, file_key |-> d.pt]

\* unwrap_file_key that falls back to a default key when decryption fails
unwrap_file_key_default_on_error(line, sk) ==
    LET pk == PublicKey_from_secret(sk)
        shared_secret == diffie_hellman(sk, line.epk)
        enc_key == derive_enc_key(line.epk, pk, shared_secret)
        d == aead_decrypt(enc_key, line.encrypted_file_key)
    IN  IF ~d.ok THEN [ok |-> TRUE, file_key |-> Repeat(0, FILE_KEY_BYTES)]
        ELSE [ok |-> TRUE, file_key |-> d.pt]

\* unwrap_file_key whose error carries the key it tried
unwrap_file_key_detailed_error(line, sk) ==
    LET pk == PublicKey_from_secret(sk)
        shared_secret == diffie_hellman(sk, line.epk)
        enc_key == derive_enc_key(line.epk, pk, shared_secret)
        d == aead_decrypt(enc_key, line.encrypted_file_key)
    IN  IF ~d.ok THEN [ok |-> FALSE, err |-> <<"DecryptionFailed", pk>>]
        ELSE [ok |-> TRUE, file_key |-> d.pt]

\* RecipientLine::unwrap_file_key(&self, sk)
unwrap_file_key(line, sk) ==
    LET pk == PublicKey_from_secret(sk)
        shared_secret == diffie_hellman(sk, line.epk)
        enc_key == derive_enc_key(line.epk, pk, shared_secret)
        d == aead_decrypt(enc_key, line.encrypted_file_key)
    IN  IF ~d.ok THEN DecryptionFailed
        ELSE IF Len(d.pt) # FILE_KEY_BYTES THEN Panicked
        ELSE [ok |-> TRUE, file_key |-> d.pt]

-----------------------------------------------------------------------------
(* Inputs.                                                                 *)

NumFileKeys == 2
MaxCalls == 2

\* 32 bytes, all zero but the first and the last
Bytes32(first, last) ==
    [i \in 1..32 |-> IF i = 1 THEN first ELSE IF i = 32 THEN last ELSE 0]

\* FileKey(Secret::new([7; 16])) and further keys
FileKeys == { Repeat(7 * k, FILE_KEY_BYTES) : k \in 1..NumFileKeys }

\* the 32 bytes a StaticSecret is loaded from
StaticSecretBytes ==
    { Bytes32(1, 0), Bytes32(2, 0), Bytes32(9, 0), Bytes32(16, 128) }

\* the 32 bytes OsRng may fill in
RandomBytes ==
    { Bytes32(0, 0), Bytes32(24, 0), Bytes32(29, 0), Bytes32(200, 255) }

\* OsRng: what a call may draw after the calls made so far
OsRng(made) ==
    { rnd \in RandomBytes :
        \A i \in 1..Len(made) :
            EphemeralSecret_new(rnd) # EphemeralSecret_new(made[i].rnd) }

-----------------------------------------------------------------------------
(* Wrapping, tampering with and unwrapping one line.                       *)

CodecIdle ==
    /\ stanza = None /\ parsed = None /\ wire = None /\ wire2 = None

Init ==
    /\ calls = <<>>
    /\ cur = None
    /\ res = None
    /\ CodecIdle

\* let line = RecipientLine::wrap_file_key(&file_key, &PublicKey::from(&sk))
Wrap ==
    /\ cur = None
    /\ \E file_key \in FileKeys, sk_bytes \in StaticSecretBytes,
          rnd \in OsRng(calls) :
            LET pk == PublicKey_from_secret(StaticSecret_from(sk_bytes))
            IN  cur' = [line |-> wrap_file_key(file_key, pk, rnd).line,
                        file_key |-> file_key,
                        sk_bytes |-> sk_bytes,
                        pk |-> pk,
                        changed |-> "nothing",
                        bit |-> 0]
    /\ UNCHANGED <<calls, res, stanza, parsed, wire, wire2>>

\* one bit of the produced line's epk is inverted
TamperEpk ==
    /\ cur # None
    /\ res = None
    /\ cur.changed = "nothing"
    /\ \E bit \in 0..(8 * EPK_LEN_BYTES - 1) :
            cur' = [cur EXCEPT !.line.epk =
                                   PublicKey_from_bytes(FlipBitAt(@, bit)),
                               !.changed = "epk",
                               !.bit = bit]
    /\ UNCHANGED <<calls, res, stanza, parsed, wire, wire2>>

\* one bit of the produced line's encrypted_file_key is inverted
TamperEncryptedFileKey ==
    /\ cur # None
    /\ res = None
    /\ cur.changed = "nothing"
    /\ \E bit \in 0..(8 * ENCRYPTED_FILE_KEY_BYTES - 1) :
            cur' = [cur EXCEPT !.line.encrypted_file_key =
                                   CiphertextFlipBit(@, bit),
                               !.changed = "encrypted_file_key",
                               !.bit = bit]
    /\ UNCHANGED <<calls, res, stanza, parsed, wire, wire2>>

\* let res = line.unwrap_file_key(&StaticSecret::from(sk_bytes))
Unwrap ==
    /\ cur # None
    /\ res = None
    /\ \E sk_bytes \in StaticSecretBytes :
            res' = [sk_bytes |-> sk_bytes,
                    out |-> unwrap_file_key(cur.line,
                                            StaticSecret_from(sk_bytes))]
    /\ UNCHANGED <<calls, cur, stanza, parsed, wire, wire2>>

Next == Wrap \/ TamperEpk \/ TamperEncryptedFileKey \/ Unwrap

Spec == Init /\ [][Next]_vars

-----------------------------------------------------------------------------
(* A sequence of wrap_file_key calls.                                      *)

WrapCall ==
    /\ Len(calls) < MaxCalls
    /\ \E file_key \in FileKeys, sk_bytes \in StaticSecretBytes,
          rnd \in OsRng(calls) :
            LET pk == PublicKey_from_secret(StaticSecret_from(sk_bytes))
                w == wrap_file_key(file_key, pk, rnd)
            IN  calls' = Append(calls, [file_key |-> file_key,
                                        pk |-> pk,
                                        rnd |-> rnd,
                                        line |-> w.line,
                                        trace |-> w.trace])
    /\ UNCHANGED <<cur, res, stanza, parsed, wire, wire2>>

NextWrap == WrapCall

SpecWrap == Init /\ [][NextWrap]_vars

-----------------------------------------------------------------------------
(* Properties of wrap_file_key and unwrap_file_key.                        *)

\* the public key of the static secret loaded from sk_bytes
PublicOf(sk_bytes) == PublicKey_from_secret(StaticSecret_from(sk_bytes))

Unwrapped == cur # None /\ res # None

\* C1: unwrapping an unchanged line with the static secret whose public key
\* it was wrapped for succeeds and returns the file key that was wrapped,
\* whatever ephemeral key the wrap call drew.
C1_RoundTrip ==
    (Unwrapped /\ cur.changed = "nothing" /\ res.sk_bytes = cur.sk_bytes)
        => res.out = [ok |-> TRUE, file_key |-> cur.file_key]

C1_Witness ==
    /\ Unwrapped
    /\ cur.changed = "nothing"
    /\ res.sk_bytes = cur.sk_bytes
    /\ cur.line.epk # cur.pk
    /\ res.out.ok
    /\ res.out.file_key = Repeat(7, FILE_KEY_BYTES)

\* C2 as stated: unwrapping an unchanged line with a static secret whose
\* bytes differ from the bytes of the recipient's static secret fails.
C2_DistinctSecretBytesFail ==
    (Unwrapped /\ cur.changed = "nothing" /\ res.sk_bytes # cur.sk_bytes)
        => res.out = DecryptionFailed

\* C2 amended: unwrapping an unchanged line with a static secret whose public
\* key differs from the public key the line was wrapped for fails.
C2_OtherPublicKeyFails ==
    (Unwrapped /\ cur.changed = "nothing" /\ PublicOf(res.sk_bytes) # cur.pk)
        => res.out = DecryptionFailed

C2_Witness ==
    /\ Unwrapped
    /\ cur.changed = "nothing"
    /\ cur.sk_bytes = Bytes32(1, 0)
    /\ res.sk_bytes = Bytes32(9, 0)
    /\ res.out = DecryptionFailed

\* C3: once one bit of the epk or of the encrypted_file_key of a produced
\* line is inverted, unwrapping fails for every static secret, the intended
\* recipient's included.
C3_TamperSensitivity ==
    (Unwrapped /\ cur.changed # "nothing") => res.out = DecryptionFailed

C3_Witness ==
    /\ Unwrapped
    /\ cur.changed = "epk"
    /\ cur.bit = 8 * EPK_LEN_BYTES - 1
    /\ res.sk_bytes = cur.sk_bytes
    /\ res.out = DecryptionFailed

\* C9: unwrap_file_key returns either the one failure value or a file key of
\* 16 bytes, the latter only when the encrypted_file_key is an untouched
\* ciphertext of that file key; a failure is the same value for a line
\* addressed to somebody else and for a line that was tampered with.
C9_UnwrapOutcome ==
    Unwrapped =>
        \/ res.out = DecryptionFailed
        \/ /\ DOMAIN res.out = {"ok", "file_key"}
           /\ res.out.ok
           /\ Len(res.out.file_key) = FILE_KEY_BYTES
           /\ cur.line.encrypted_file_key.mask = {}
           /\ res.out.file_key = cur.line.encrypted_file_key.pt

C9_Witness ==
    /\ Unwrapped
    /\ cur.changed = "encrypted_file_key"
    /\ res.sk_bytes = cur.sk_bytes
    /\ res.out = DecryptionFailed

-----------------------------------------------------------------------------
(* Properties of a sequence of wrap_file_key calls.                        *)

TraceOps(trace, kind) == SelectSeq(trace, LAMBDA e : e[1] = kind)

\* what one call did: one draw, one Diffie-Hellman with the secret made of
\* that draw, one derivation salted with epk || pk, one encryption under
\* the derived key
CallUsesItsKeyOnce(c) ==
    LET rng == TraceOps(c.trace, "rng")
        dh == TraceOps(c.trace, "diffie_hellman")
        kdf == TraceOps(c.trace, "hkdf")
        enc == TraceOps(c.trace, "aead_encrypt")
    IN  /\ Len(rng) = 1 /\ Len(dh) = 1 /\ Len(kdf) = 1 /\ Len(enc) = 1
        /\ rng[1][2] = c.rnd
        /\ dh[1][2] = EphemeralSecret_new(rng[1][2])
        /\ dh[1][3] = c.pk
        /\ c.line.epk = PublicKey_from_secret(dh[1][2])
        /\ kdf[1][2] = c.line.epk \o c.pk
        /\ enc[1][2] = hkdf(kdf[1][2], X25519_RECIPIENT_KEY_LABEL, kdf[1][3])
        /\ enc[1][2] = c.line.encrypted_file_key.key

EphemeralSecretOf(c) == TraceOps(c.trace, "diffie_hellman")[1][2]
DerivedKeyOf(c) == TraceOps(c.trace, "aead_encrypt")[1][2]

\* C10: every wrap_file_key call draws once, uses the ephemeral secret of
\* that draw for one Diffie-Hellman and the key derived with the salt
\* epk || pk for one encryption, and no two calls use the same ephemeral
\* secret or the same derived key.
C10_SingleUseKey ==
    /\ \A i \in 1..Len(calls) : CallUsesItsKeyOnce(calls[i])
    /\ \A i, j \in 1..Len(calls) :
            i # j => /\ EphemeralSecretOf(calls[i]) # EphemeralSecretOf(calls[j])
                     /\ DerivedKeyOf(calls[i]) # DerivedKeyOf(calls[j])

C10_Witness ==
    /\ Len(calls) = 2
    /\ calls[1].pk = calls[2].pk
    /\ calls[1].file_key = calls[2].file_key
    /\ calls[1].line # calls[2].line

-----------------------------------------------------------------------------
(* Text and base64.  A text is a sequence of one-character strings.        *)

Base64Alphabet ==
    << "A", "B", "C", "D", "E", "F", "G", "H", "I", "J", "K", "L", "M",
       "N", "O", "P", "Q", "R", "S", "T", "U", "V", "W", "X", "Y", "Z",
       "a", "b", "c", "d", "e", "f", "g", "h", "i", "j", "k", "l", "m",
       "n", "o", "p", "q", "r", "s", "t", "u", "v", "w", "x", "y", "z",
       "0", "1", "2", "3", "4", "5", "6", "7", "8", "9", "+", "/" >>

Base64Char(v) == Base64Alphabet[v + 1]

IsBase64Char(c) == \E i \in 1..64 : Base64Alphabet[i] = c

Base64Value(c) == (CHOOSE i \in 1..64 : Base64Alphabet[i] = c) - 1

\* the length of the padding-free base64 of n bytes
Base64Len(n) == (4 * n + 2) \div 3

\* base64::encode_config(bytes[i..], STANDARD_NO_PAD)
RECURSIVE Base64EncodeFrom(_, _)
Base64EncodeFrom(bytes, i) ==
    LET n == Len(bytes) - i + 1
    IN  IF n <= 0 THEN <<>>
        ELSE IF n = 1 THEN
            << Base64Char(bytes[i] \div 4), Base64Char((bytes[i] % 4) * 16) >>
        ELSE IF n = 2 THEN
            << Base64Char(bytes[i] \div 4),
               Base64Char((bytes[i] % 4) * 16 + bytes[i + 1] \div 16),
               Base64Char((bytes[i + 1] % 16) * 4) >>
        ELSE
            << Base64Char(bytes[i] \div 4),
               Base64Char((bytes[i] % 4) * 16 + bytes[i + 1] \div 16),
               Base64Char((bytes[i + 1] % 16) * 4 + bytes[i + 2] \div 64),
               Base64Char(bytes[i + 2] % 64) >>
            \o Base64EncodeFrom(bytes, i + 3)

\* crate::util::write::encoded_data
encoded_data(bytes) == Base64EncodeFrom(bytes, 1)

\* The bytes of the sextets v[i..]; a last group of one sextet, or one whose
\* unused low bits are set, does not decode.
RECURSIVE Base64DecodeFrom(_, _)
Base64DecodeFrom(v, i) ==
    LET n == Len(v) - i + 1
    IN  IF n <= 0 THEN [ok |-> TRUE, bytes |-> <<>>]
        ELSE IF n = 1 THEN [ok |-> FALSE]
        ELSE IF n = 2 THEN
            IF v[i + 1] % 16 # 0 THEN [ok |-> FALSE]
            ELSE [ok |-> TRUE, bytes |-> << v[i] * 4 + v[i + 1] \div 16 >>]
        ELSE IF n = 3 THEN
            IF v[i + 2] % 4 # 0 THEN [ok |-> FALSE]
            ELSE [ok |-> TRUE,
                  bytes |-> << v[i] * 4 + v[i + 1] \div 16,
                               (v[i + 1] % 16) * 16 + v[i + 2] \div 4 >>]
        ELSE
            LET rest == Base64DecodeFrom(v, i + 4)
            IN  IF ~rest.ok THEN [ok |-> FALSE]
                ELSE [ok |-> TRUE,
                      bytes |-> << v[i] * 4 + v[i + 1] \div 16,
                                   (v[i + 1] % 16) * 16 + v[i + 2] \div 4,
                                   (v[i + 2] % 4) * 64 + v[i + 3] >>
                                \o rest.bytes]

\* base64::decode_config(text, STANDARD_NO_PAD)
Base64Decode(text) ==
    IF \E i \in 1..Len(text) : ~IsBase64Char(text[i]) THEN [ok |-> FALSE]
    ELSE Base64DecodeFrom([i \in 1..Len(text) |-> Base64Value(text[i])], 1)

\* crate::util::read::base64_arg(arg, [0; n]): the n bytes arg decodes to
base64_arg(arg, n) ==
    LET d == Base64Decode(arg)
    IN  IF d.ok /\ Len(d.bytes) = n THEN [ok |-> TRUE, bytes |-> d.bytes]
        ELSE [ok |-> FALSE]

-----------------------------------------------------------------------------
(* The stanza codec.  In this part encrypted_file_key is 32 plain bytes.   *)

NotApplicable == [ok |-> FALSE]

\* the position of the first c in text at or after i, 0 when there is none
RECURSIVE IndexOfFrom(_, _, _)
IndexOfFrom(text, c, i) ==
    IF i > Len(text) THEN 0
    ELSE IF text[i] = c THEN i
    ELSE IndexOfFrom(text, c, i + 1)

\* text split at every c
RECURSIVE SplitAt(_, _)
SplitAt(text, c) ==
    LET k == IndexOfFrom(text, c, 1)
    IN  IF k = 0 THEN << text >>
        ELSE << SubSeq(text, 1, k - 1) >>
             \o SplitAt(SubSeq(text, k + 1, Len(text)), c)

\* crate::format::read::recipient_stanza: the tag and the arguments are the
\* words of the first line, the body is the base64 of what follows it
recipient_stanza(input) ==
    LET nl == IndexOfFrom(input, "\n", 1)
        words == SplitAt(SubSeq(input, 1, nl - 1), " ")
        body == Base64Decode(SubSeq(input, nl + 1, Len(input)))
    IN  IF nl = 0 \/ (\E i \in 1..Len(words) : words[i] = <<>>) \/ ~body.ok
        THEN [ok |-> FALSE]
        ELSE [ok |-> TRUE,
              stanza |-> [tag |-> words[1],
                          args |-> Tail(words),
                          body |-> body.bytes]]

IsPrefix(p, t) == Len(p) <= Len(t) /\ SubSeq(t, 1, Len(p)) = p

\* the closure with the tag compared as a prefix
recipient_line_of_stanza_tag_prefix(st) ==
    IF ~IsPrefix(X25519_RECIPIENT_TAG, st.tag) THEN NotApplicable
    ELSE IF Len(st.args) = 0 THEN NotApplicable
    ELSE LET epk == base64_arg(st.args[1], EPK_LEN_BYTES)
         IN  IF ~epk.ok THEN NotApplicable
             ELSE IF Len(st.body) # ENCRYPTED_FILE_KEY_BYTES THEN NotApplicable
             ELSE [ok |-> TRUE,
                   line |-> [epk |-> PublicKey_from_bytes(epk.bytes),
                             encrypted_file_key |-> st.body]]

\* the closure taking the leading 32 bytes of a body that has at least 32
recipient_line_of_stanza_body_prefix(st) ==
    IF st.tag # X25519_RECIPIENT_TAG THEN NotApplicable
    ELSE IF Len(st.args) = 0 THEN NotApplicable
    ELSE LET epk == base64_arg(st.args[1], EPK_LEN_BYTES)
         IN  IF ~epk.ok THEN NotApplicable
             ELSE IF Len(st.body) < ENCRYPTED_FILE_KEY_BYTES THEN NotApplicable
             ELSE [ok |-> TRUE,
                   line |-> [epk |-> PublicKey_from_bytes(epk.bytes),
                             encrypted_file_key |->
                                 SubSeq(st.body, 1, ENCRYPTED_FILE_KEY_BYTES)]]

\* the closure read::recipient_line maps over the stanza
recipient_line_of_stanza(st) ==
    IF st.tag # X25519_RECIPIENT_TAG THEN NotApplicable
    ELSE IF Len(st.args) = 0 THEN NotApplicable
    ELSE LET epk == base64_arg(st.args[1], EPK_LEN_BYTES)
         IN  IF ~epk.ok THEN NotApplicable
             ELSE IF Len(st.body) # ENCRYPTED_FILE_KEY_BYTES THEN NotApplicable
             ELSE [ok |-> TRUE,
                   line |-> [epk |-> PublicKey_from_bytes(epk.bytes),
                             encrypted_file_key |-> st.body]]

\* read::recipient_line(input) = map_opt(recipient_stanza, closure)(input)
read_recipient_line(input) ==
    LET s == recipient_stanza(input)
    IN  IF ~s.ok THEN NotApplicable ELSE recipient_line_of_stanza(s.stanza)

\* write::recipient_line with a space where the newline belongs
write_recipient_line_one_line(r) ==
    X25519_RECIPIENT_TAG \o << " " >> \o encoded_data(r.epk)
        \o << " " >> \o encoded_data(r.encrypted_file_key)

\* write::recipient_line ending the body with a newline
write_recipient_line_trailing_newline(r) ==
    X25519_RECIPIENT_TAG \o << " " >> \o encoded_data(r.epk)
        \o << "\n" >> \o encoded_data(r.encrypted_file_key) \o << "\n" >>

\* write::recipient_line(r)
write_recipient_line(r) ==
    X25519_RECIPIENT_TAG \o << " " >> \o encoded_data(r.epk)
        \o << "\n" >> \o encoded_data(r.encrypted_file_key)

-----------------------------------------------------------------------------
(* Parsing stanzas, and writing lines and reading them back.               *)

MaxArgs == 2

ByteString(n, seed) == [i \in 1..n |-> (seed + 37 * i) % 256]

LowerTag == <<"x", "2", "5", "5", "1", "9">>
LongerTag == X25519_RECIPIENT_TAG \o <<"x">>
ScryptTag == <<"s", "c", "r", "y", "p", "t">>

Tags == { X25519_RECIPIENT_TAG, LowerTag, LongerTag, ScryptTag }

KeyArg == encoded_data(ByteString(EPK_LEN_BYTES, 5))
ShortKeyArg == encoded_data(ByteString(EPK_LEN_BYTES - 1, 5))
LongKeyArg == encoded_data(ByteString(EPK_LEN_BYTES + 1, 5))
\* not base64: a character outside the alphabet
BadCharArg == [KeyArg EXCEPT ![1] = "*"]
\* not canonical: the unused bits of the last character are set
TrailingBitsArg == [KeyArg EXCEPT ![Len(KeyArg)] = "V"]

ArgValues == { KeyArg, ShortKeyArg, LongKeyArg, BadCharArg, TrailingBitsArg }

ArgLists == UNION { [1..n -> ArgValues] : n \in 0..MaxArgs }

Bodies ==
    { ByteString(ENCRYPTED_FILE_KEY_BYTES, 11),
      ByteString(ENCRYPTED_FILE_KEY_BYTES - 1, 11),
      ByteString(ENCRYPTED_FILE_KEY_BYTES + 1, 11),
      Repeat(255, ENCRYPTED_FILE_KEY_BYTES),
      <<>> }

Stanzas == [tag : Tags, args : ArgLists, body : Bodies]

Lines ==
    [epk : { ByteString(EPK_LEN_BYTES, 5), Repeat(0, EPK_LEN_BYTES),
             Repeat(255, EPK_LEN_BYTES) },
     encrypted_file_key :
           { ByteString(ENCRYPTED_FILE_KEY_BYTES, 11),
             Repeat(0, ENCRYPTED_FILE_KEY_BYTES),
             Repeat(255, ENCRYPTED_FILE_KEY_BYTES) }]

\* read::recipient_line reaches its closure with a tokenized stanza
ParseStanza ==
    /\ stanza = None
    /\ wire = None
    /\ \E st \in Stanzas :
            /\ stanza' = st
            /\ parsed' = recipient_line_of_stanza(st)
    /\ UNCHANGED <<calls, cur, res, wire, wire2>>

\* write::recipient_line(&r)
WriteLine ==
    /\ stanza = None
    /\ wire = None
    /\ \E r \in Lines :
            wire' = [line |-> r, bytes |-> write_recipient_line(r)]
    /\ UNCHANGED <<calls, cur, res, stanza, parsed, wire2>>

\* read::recipient_line on the bytes written
ReadBack ==
    /\ wire # None
    /\ parsed = None
    /\ parsed' = read_recipient_line(wire.bytes)
    /\ UNCHANGED <<calls, cur, res, stanza, wire, wire2>>

\* write::recipient_line on the line read back
WriteAgain ==
    /\ wire # None
    /\ parsed # None
    /\ parsed.ok
    /\ wire2 = None
    /\ wire2' = write_recipient_line(parsed.line)
    /\ UNCHANGED <<calls, cur, res, stanza, parsed, wire>>

NextCodec == ParseStanza \/ WriteLine \/ ReadBack \/ WriteAgain

SpecCodec == Init /\ [][NextCodec]_vars

-----------------------------------------------------------------------------
(* Properties of the codec.                                                *)

ParsedStanza == stanza # None /\ parsed # None

\* what the first argument of the stanza decodes to, if there is one
KeyArgDecoded ==
    IF Len(stanza.args) = 0 THEN [ok |-> FALSE]
    ELSE Base64Decode(stanza.args[1])

\* C4: read::recipient_line yields a RecipientLine only for a stanza with
\* exactly one argument.
C4_ExactlyOneArgument ==
    (ParsedStanza /\ parsed.ok) => Len(stanza.args) = 1

\* C5: for a stanza tagged X25519, a key argument that decodes to other than
\* 32 bytes or a body of other than 32 bytes gives not applicable, and a line
\* that is yielded has the 32 decoded bytes as epk and the 32 bytes of the
\* body as encrypted_file_key.
C5_LengthRejection ==
    (ParsedStanza /\ stanza.tag = X25519_RECIPIENT_TAG) =>
        /\ (KeyArgDecoded.ok /\ Len(KeyArgDecoded.bytes) # 32)
                => parsed = NotApplicable
        /\ Len(stanza.body) # 32 => parsed = NotApplicable
        /\ parsed # NotApplicable =>
                /\ parsed.ok
                /\ KeyArgDecoded.ok
                /\ parsed.line.epk = KeyArgDecoded.bytes
                /\ Len(parsed.line.epk) = 32
                /\ parsed.line.encrypted_file_key = stanza.body
                /\ Len(parsed.line.encrypted_file_key) = 32

C5_Witness ==
    /\ ParsedStanza
    /\ stanza.tag = X25519_RECIPIENT_TAG
    /\ stanza.args = << KeyArg >>
    /\ Len(stanza.body) = 33
    /\ parsed = NotApplicable

\* C6: a stanza whose tag is not X25519 gives not applicable, whatever its
\* arguments and body are.
C6_TagSelectivity ==
    (ParsedStanza /\ stanza.tag # X25519_RECIPIENT_TAG)
        => parsed = NotApplicable

C6_Witness ==
    /\ ParsedStanza
    /\ stanza.tag = LongerTag
    /\ stanza.args = << KeyArg >>
    /\ Len(stanza.body) = 32
    /\ parsed = NotApplicable

\* C7: the bytes written for a line parse, and writing the parsed line gives
\* the same bytes again.
C7_SerializationRoundTrip ==
    (wire # None /\ parsed # None) =>
        /\ parsed.ok
        /\ wire2 # None => wire2 = wire.bytes

C7_Witness ==
    /\ wire # None
    /\ wire2 # None
    /\ wire.line.epk = Repeat(255, EPK_LEN_BYTES)
    /\ wire2 = wire.bytes

\* C8: the bytes written are the tag, a space, the 43 characters of the
\* unpadded base64 of the epk, a newline and the 43 characters of the
\* unpadded base64 of the encrypted_file_key, and nothing more.
C8_SerializationLayout ==
    wire # None =>
        LET t == wire.bytes
            n == Len(X25519_RECIPIENT_TAG)
            k == Base64Len(32)
        IN  /\ Len(t) = n + 1 + k + 1 + k
            /\ SubSeq(t, 1, n) = X25519_RECIPIENT_TAG
            /\ t[n + 1] = " "
            /\ Base64Decode(SubSeq(t, n + 2, n + 1 + k))
                   = [ok |-> TRUE, bytes |-> wire.line.epk]
            /\ t[n + k + 2] = "\n"
            /\ Base64Decode(SubSeq(t, n + k + 3, n + 2 * k + 2))
                   = [ok |-> TRUE, bytes |-> wire.line.encrypted_file_key]
            /\ t[Len(t)] # "\n"

C8_Witness ==
    /\ wire # None
    /\ wire.line.epk = ByteString(EPK_LEN_BYTES, 5)
    /\ SubSeq(wire.bytes, 1, 10) = <<"X", "2", "5", "5", "1", "9", " ", "K", "k", "9">>
    /\ Len(wire.bytes) = 94

====
